---- MODULE Spec2Model ----
(***************************************************************************)
(* Model of the JSON-RPC / MCP tool dispatch gateway of                    *)
(* Supabase-MCP-SelfHosted.                                                *)
(*                                                                         *)
(*   MCPHandler          src/src/supabase_server_simple.py                 *)
(*   MCPHubHandler       src/mcp_hub.py                                    *)
(*   SupabaseMCPHandler  src/src/supabase_server.py                        *)
(*                                                                         *)
(* A handler object lives for one HTTP request.  The process-wide state is *)
(* the configuration read at import time (ENABLED_TOOLS) and the           *)
(* environment (DATABASE_URL).  One action handles one request from its    *)
(* first line to the last byte written; Finish discards the handler.       *)
(***************************************************************************)
EXTENDS Integers, Sequences, FiniteSets, TLC

(***************************************************************************)
(* JSON values.  A value is a record [t, v]: t is the JSON type ("missing" *)
(* for a key that is not in its object), v the text of a scalar.           *)
(***************************************************************************)
Missing == [t |-> "missing", v |-> ""]
Null    == [t |-> "null", v |-> ""]
Str(s)  == [t |-> "str", v |-> s]
Num(s)  == [t |-> "num", v |-> s]
Arr(s)  == [t |-> "arr", v |-> s]

\* Python truthiness of a decoded JSON value (None, "", 0, [] are falsy).
Truthy(j) == j.t \in {"str", "num", "arr", "obj"} /\ j.v \notin {"", "0"}

\* dict.get(key) : a missing key reads as None.
Get(j) == IF j.t = "missing" THEN Null ELSE j

\* dict.get(key, default) : only a missing key takes the default.
GetDefault(j, d) == IF j.t = "missing" THEN d ELSE j

(***************************************************************************)
(* The tool registry of MCPHandler, in registration order.                 *)
(***************************************************************************)
Tool(n, req) == [name |-> n, required |-> req]

RegisteredTools ==
    << Tool("execute_sql", {"sql"}),
       Tool("list_tables", {}),
       Tool("list_extensions", {}),
       Tool("get_database_stats", {}),
       Tool("get_database_connections", {}),
       Tool("apply_migration", {"version"}),
       Tool("list_migrations", {}),
       Tool("generate_typescript_types", {}),
       Tool("get_logs", {}),
       Tool("search_docs", {"query"}),
       Tool("check_health", {}),
       Tool("list_auth_users", {}),
       Tool("get_auth_user", {}),
       Tool("create_auth_user", {}),
       Tool("delete_auth_user", {}),
       Tool("update_auth_user", {}),
       Tool("list_storage_buckets", {}),
       Tool("list_storage_objects", {"bucket_id"}),
       Tool("verify_jwt_secret", {}) >>

Names(tools) == [i \in DOMAIN tools |-> tools[i].name]

Range(s) == {s[i] : i \in DOMAIN s}

RegisteredNames == Range(Names(RegisteredTools))

(***************************************************************************)
(* The allow-list file.  file: "absent" (no such path), "invalid" (not     *)
(* JSON, or unreadable), "ok".  Its two keys hold a JSON list (t = "list", *)
(* names = the set of its items), another JSON value, or are missing.      *)
(***************************************************************************)
NoList      == [t |-> "missing", names |-> {}]
NotAList    == [t |-> "str", names |-> {}]
ListOf(S)   == [t |-> "list", names |-> S]

\* ENABLED_TOOLS is None or a set of names.
NoneTools   == [none |-> TRUE, names |-> {}]
SetOf(S)    == [none |-> FALSE, names |-> S]

\* a or b, on the values of the two keys: an empty list, like a missing key
\* (None), is falsy and yields b.
PyOrList(a, b) ==
    IF (a.t = "list" /\ a.names # {}) \/ a.t = "str" THEN a
    ELSE IF b.t = "missing" THEN [t |-> "null", names |-> {}] ELSE b

_load_enabled_tools(cfg) ==
    IF cfg.file # "ok" THEN NoneTools
    ELSE LET enabled == PyOrList(cfg.enabledTools, cfg.enabled_tools)
         IN  IF enabled.t = "list" THEN SetOf(enabled.names) ELSE NoneTools

\* if ENABLED_TOOLS: ... -- None and the empty set are both falsy.
_get_tools_definition(enabled) ==
    IF ~enabled.none /\ enabled.names # {}
    THEN SelectSeq(RegisteredTools, LAMBDA t : t.name \in enabled.names)
    ELSE RegisteredTools

(***************************************************************************)
(* The backing store.  DATABASE_URL is set or not; every attempt to use    *)
(* the store ends in one of DbOutcomes, chosen by the environment.         *)
(*   connect_error  psycopg.connect raises                                 *)
(*   query_error    cur.execute raises                                     *)
(*   rows, no_rows  the statement returns a non-empty / an empty row set   *)
(*   no_result      the statement returns no row set: cur.fetchall raises  *)
(***************************************************************************)
DbOutcomes == {"connect_error", "query_error", "rows", "no_rows", "no_result"}

Ev(op, sql) == [op |-> op, sql |-> sql]

\* ConnectBlock with conn = psycopg.connect(...) and conn.close() after the
\* statement instead of the with block: a statement that raises skips close.
ConnectBlock_without_with(out, sql) ==
    IF out = "connect_error" THEN << Ev("connect_failed", "") >>
    ELSE IF out = "query_error"
         THEN << Ev("connect", ""), Ev("execute", sql), Ev("error", sql) >>
    ELSE << Ev("connect", ""), Ev("execute", sql), Ev("close", "") >>

\* with psycopg.connect(...) as conn: with conn.cursor() as cur: cur.execute(sql)
\* The events of one such block: leaving the with block closes the connection,
\* also when execute raises ("error": the store rejected the statement).
ConnectBlock(out, sql) ==
    IF out = "connect_error" THEN << Ev("connect_failed", "") >>
    ELSE IF out = "query_error"
         THEN << Ev("connect", ""), Ev("execute", sql), Ev("error", sql), Ev("close", "") >>
    ELSE << Ev("connect", ""), Ev("execute", sql), Ev("close", "") >>

\* with psycopg.connect(...) as _: pass
ConnectOnly(out) ==
    IF out = "connect_error" THEN << Ev("connect_failed", "") >>
    ELSE << Ev("connect", ""), Ev("close", "") >>

NoneText == "<None>"

\* _execute_sql_text with a second attempt after a failed one.
_execute_sql_text_retry(sql, dbUrl, out) ==
    IF ~dbUrl THEN [txt |-> NoneText, err |-> "Missing DATABASE_URL", calls |-> << >>]
    ELSE IF out = "connect_error"
         THEN [txt |-> NoneText, err |-> "<connect error>",
               calls |-> ConnectBlock(out, sql) \o ConnectBlock(out, sql)]
    ELSE IF out = "query_error"
         THEN [txt |-> NoneText, err |-> "<query error>",
               calls |-> ConnectBlock(out, sql) \o ConnectBlock(out, sql)]
    ELSE IF out = "no_result"
         THEN [txt |-> "OK", err |-> NoneText, calls |-> ConnectBlock(out, sql)]
    ELSE IF out = "no_rows"
         THEN [txt |-> "(no rows)", err |-> NoneText, calls |-> ConnectBlock(out, sql)]
    ELSE [txt |-> "<rows>", err |-> NoneText, calls |-> ConnectBlock(out, sql)]

\* Returns (text, err): err is None or the text of the exception.
_execute_sql_text(sql, dbUrl, out) ==
    IF ~dbUrl THEN [txt |-> NoneText, err |-> "Missing DATABASE_URL", calls |-> << >>]
    ELSE IF out = "connect_error"
         THEN [txt |-> NoneText, err |-> "<connect error>", calls |-> ConnectBlock(out, sql)]
    ELSE IF out = "query_error"
         THEN [txt |-> NoneText, err |-> "<query error>", calls |-> ConnectBlock(out, sql)]
    ELSE IF out = "no_result"
         THEN [txt |-> "OK", err |-> NoneText, calls |-> ConnectBlock(out, sql)]
    ELSE IF out = "no_rows"
         THEN [txt |-> "(no rows)", err |-> NoneText, calls |-> ConnectBlock(out, sql)]
    ELSE [txt |-> "<rows>", err |-> NoneText, calls |-> ConnectBlock(out, sql)]

\* if err: -- None and "" are falsy.
IsErr(r) == r.err \notin {NoneText, ""}

(***************************************************************************)
(* Tool results and errors.                                                *)
(***************************************************************************)
NoneResult    == [t |-> "None", text |-> << >>, tools |-> << >>]
Content(text) == [t |-> "content", text |-> text, tools |-> << >>]
Payload(tag)  == [t |-> tag, text |-> << >>, tools |-> << >>]
ToolList(ns)  == [t |-> "tools", text |-> << >>, tools |-> ns]

NoError       == [code |-> 0, message |-> << >>]
Error(c, m)   == [code |-> c, message |-> m]

\* What a call of _dispatch_tool leaves: the pair it returns, or raised = TRUE
\* when an exception leaves it, and the store events it caused.
Ok(res, calls)    == [result |-> res, error |-> NoError, raised |-> FALSE, calls |-> calls]
Fail(err, calls)  == [result |-> NoneResult, error |-> err, raised |-> FALSE, calls |-> calls]
Raise(calls)      == [result |-> NoneResult, error |-> NoError, raised |-> TRUE, calls |-> calls]

IsName(j, s) == j.t = "str" /\ j.v = s

(***************************************************************************)
(* Tool arguments: [t, f].  t is the JSON type of the arguments value; for *)
(* an object, f maps each key to its value (Missing when absent).          *)
(***************************************************************************)
ArgKeys == {"sql", "bucket_id", "id", "email", "version", "query"}

NoArgFields == [k \in ArgKeys |-> Missing]

EmptyObj == [t |-> "obj", f |-> NoArgFields]

\* tool_args.get(...) raises AttributeError unless tool_args is a dict.
IsDict(a) == a.t = "obj"

\* sql[:100] raises TypeError for None and for numbers.
Sliceable(j) == j.t \in {"str", "arr"}

\* The stub branch without search_docs: the name falls through to "not found".
StubTools_without_search_docs ==
    {"apply_migration", "list_migrations", "generate_typescript_types", "get_logs"}

StubTools == {"apply_migration", "list_migrations", "generate_typescript_types",
              "get_logs", "search_docs"}

AuthStubTools == {"create_auth_user", "delete_auth_user", "update_auth_user"}

(***************************************************************************)
(* MCPHandler._dispatch_tool(tool_name, tool_args) -> (result, error).     *)
(* dbUrl: DATABASE_URL is set; jwt: SUPABASE_AUTH_JWT_SECRET is set;       *)
(* out1, out2: how the first and the second use of the store end.          *)
(***************************************************************************)
\* cur.execute(sql) raises for a query that is not a string.
ExecOutcome(sql, out) ==
    IF out = "connect_error" THEN out
    ELSE IF sql.t # "str" THEN "query_error"
    ELSE out

tool_execute_sql(tool_args, dbUrl, out1) ==
    IF ~IsDict(tool_args) THEN Raise(<< >>)
    ELSE
    LET sql == GetDefault(tool_args.f["sql"], Str("SELECT 1"))
        eff == ExecOutcome(sql, out1)
    IN  IF dbUrl
        THEN IF eff \in {"connect_error", "query_error"}
             THEN Fail(Error(-32000, << "SQL error: ", eff >>), ConnectBlock(eff, sql.v))
             ELSE Ok(Content(<< "SQL execute ok: ",
                                IF eff = "no_result" THEN "OK" ELSE "<n> rows" >>),
                     ConnectBlock(eff, sql.v))
        ELSE IF Sliceable(sql)
             THEN Ok(Content(<< "SQL execute ok: ", sql.v, "..." >>), << >>)
             ELSE Raise(<< >>)

\* The tools that run one fixed statement through _execute_sql_text.
tool_sql_text(sql, code, label, dbUrl, out1) ==
    LET r == _execute_sql_text(sql, dbUrl, out1)
    IN  IF IsErr(r)
        THEN Fail(Error(code, << label, r.err >>), r.calls)
        ELSE Ok(Content(<< r.txt >>), r.calls)

tool_check_health(dbUrl, out1) ==
    IF dbUrl
    THEN IF out1 = "connect_error"
         THEN Fail(Error(-32001, << "DB unhealthy: ", out1 >>), ConnectOnly(out1))
         ELSE Ok(Content(<< "Database healthy (self-hosted)" >>), ConnectOnly(out1))
    ELSE Ok(Content(<< "Database healthy" >>), << >>)

tool_list_tables_internal_error(dbUrl, out1) ==
    LET sql == "select table_schema, table_name from information_schema.tables"
    IN  IF dbUrl
        THEN IF out1 \in {"connect_error", "query_error", "no_result"}
             THEN Fail(Error(-32603, << "Internal error" >>), ConnectBlock(out1, sql))
             ELSE Ok(Content(<< IF out1 = "rows" THEN "<rows>" ELSE "(no tables)" >>),
                     ConnectBlock(out1, sql))
        ELSE Ok(Content(<< "Tables disponibles: users, profiles, posts, comments, etc." >>),
                << >>)

tool_list_tables(dbUrl, out1) ==
    LET sql == "select table_schema, table_name from information_schema.tables"
    IN  IF dbUrl
        THEN IF out1 \in {"connect_error", "query_error", "no_result"}
             THEN Fail(Error(-32002, << "List tables error: ", out1 >>),
                       ConnectBlock(out1, sql))
             ELSE Ok(Content(<< IF out1 = "rows" THEN "<rows>" ELSE "(no tables)" >>),
                     ConnectBlock(out1, sql))
        ELSE Ok(Content(<< "Tables disponibles: users, profiles, posts, comments, etc." >>),
                << >>)

tool_get_auth_user(tool_args, dbUrl, out1) ==
    IF ~IsDict(tool_args) THEN Raise(<< >>)
    ELSE
    LET user_id == Get(tool_args.f["id"])
        email   == Get(tool_args.f["email"])
        byId    == "SELECT id::text, email, created_at FROM auth.users WHERE id::text = %s LIMIT 1"
        byEmail == "SELECT id::text, email, created_at FROM auth.users WHERE email = %s LIMIT 1"
    IN  IF ~Truthy(user_id) /\ ~Truthy(email)
        THEN Fail(Error(-32602, << "Missing 'id' or 'email'" >>), << >>)
        ELSE LET r == _execute_sql_text(IF Truthy(user_id) THEN byId ELSE byEmail,
                                        dbUrl, out1)
             IN  IF IsErr(r)
                 THEN Fail(Error(-32021, << "Auth user error: ", r.err >>), r.calls)
                 ELSE Ok(Content(<< IF r.txt \in {NoneText, ""} THEN "(not found)"
                                    ELSE r.txt >>), r.calls)

tool_list_storage_objects(tool_args, dbUrl, out1) ==
    IF ~IsDict(tool_args) THEN Raise(<< >>)
    ELSE
    LET bucket_id == Get(tool_args.f["bucket_id"])
    IN  IF ~Truthy(bucket_id)
        THEN Fail(Error(-32602, << "Missing 'bucket_id'" >>), << >>)
        ELSE tool_sql_text("SELECT id::text, name, created_at FROM storage.objects WHERE bucket_id = %s",
                           -32031, "Objects error: ", dbUrl, out1)

tool_get_database_stats(dbUrl, out1, out2) ==
    LET r1 == _execute_sql_text("SELECT current_database(), pg_size_pretty(...)", dbUrl, out1)
    IN  IF IsErr(r1)
        THEN Fail(Error(-32040, << "DB size error: ", r1.err >>), r1.calls)
        ELSE LET r2   == _execute_sql_text("SELECT schemaname, relname, ... FROM pg_statio_user_tables",
                                           dbUrl, out2)
                 txt2 == IF IsErr(r2) THEN "" ELSE r2.txt
             IN  Ok(Content(IF txt2 \notin {NoneText, ""}
                            THEN << r1.txt, "\n\nTop tables:\n", txt2 >>
                            ELSE << r1.txt >>),
                    r1.calls \o r2.calls)

_dispatch_tool(tool_name, tool_args, dbUrl, jwt, out1, out2) ==
    IF IsName(tool_name, "execute_sql") THEN tool_execute_sql(tool_args, dbUrl, out1)
    ELSE IF IsName(tool_name, "list_extensions")
         THEN tool_sql_text("SELECT extname, extversion FROM pg_extension ORDER BY extname",
                            -32010, "Extensions error: ", dbUrl, out1)
    ELSE IF tool_name.t = "str" /\ tool_name.v \in StubTools
         THEN Ok(Content(<< tool_name.v, " executed (stub)." >>), << >>)
    ELSE IF IsName(tool_name, "check_health") THEN tool_check_health(dbUrl, out1)
    ELSE IF IsName(tool_name, "list_tables") THEN tool_list_tables(dbUrl, out1)
    ELSE IF IsName(tool_name, "list_auth_users")
         THEN tool_sql_text("SELECT id::text, email, created_at FROM auth.users",
                            -32020, "Auth users error: ", dbUrl, out1)
    ELSE IF IsName(tool_name, "get_auth_user") THEN tool_get_auth_user(tool_args, dbUrl, out1)
    ELSE IF tool_name.t = "str" /\ tool_name.v \in AuthStubTools
         THEN Ok(Content(<< tool_name.v, " executed (stub)." >>), << >>)
    ELSE IF IsName(tool_name, "list_storage_buckets")
         THEN tool_sql_text("SELECT id::text, name, created_at FROM storage.buckets",
                            -32030, "Buckets error: ", dbUrl, out1)
    ELSE IF IsName(tool_name, "list_storage_objects")
         THEN tool_list_storage_objects(tool_args, dbUrl, out1)
    ELSE IF IsName(tool_name, "get_database_stats")
         THEN tool_get_database_stats(dbUrl, out1, out2)
    ELSE IF IsName(tool_name, "get_database_connections")
         THEN tool_sql_text("SELECT datname, count(*) FROM pg_stat_activity GROUP BY datname",
                            -32041, "Connections error: ", dbUrl, out1)
    ELSE IF IsName(tool_name, "verify_jwt_secret")
         THEN Ok(Content(<< IF jwt THEN "JWT secret present" ELSE "JWT secret missing" >>), << >>)
    ELSE Fail(Error(-32601, << "Tool '", tool_name.v, "' not found" >>), << >>)

(***************************************************************************)
(* Responses.  status 0: no status line was written.  kind: "jsonrpc" (a   *)
(* JSON-RPC envelope), "rest" (the {ok, result, error} body of the REST    *)
(* mirror), "empty" (headers only), "none" (nothing was written).  keys:   *)
(* the keys of the JSON object in the body.  escaped: an exception left    *)
(* the handler.  cors: the Access-Control-Allow headers of the answer to an *)
(* OPTIONS request (not recorded for the other verbs).  statusLines: the   *)
(* status lines, each with its header block, that reached the socket.      *)
(***************************************************************************)
Response(h, st, kind, keys, id, res, err, calls) ==
    [handler |-> h, status |-> st, kind |-> kind, keys |-> keys, id |-> id,
     result |-> res, error |-> err, calls |-> calls, escaped |-> FALSE, cors |-> {},
     statusLines |-> IF st = 0 THEN 0 ELSE 1]

NoResponse ==
    [handler |-> "", status |-> 0, kind |-> "none", keys |-> {}, id |-> Missing,
     result |-> NoneResult, error |-> NoError, calls |-> << >>, escaped |-> FALSE,
     cors |-> {}, statusLines |-> 0]

Escaped(h, calls) == [NoResponse EXCEPT !.handler = h, !.escaped = TRUE, !.calls = calls]

(***************************************************************************)
(* MCPHandler.do_POST                                                      *)
(***************************************************************************)
ProtocolMethods == {"ping", "initialize", "tools/list", "resources/list",
                    "prompts/list", "get_capabilities"}

\* Envelope without the else: "result" is written next to "error".
Envelope_result_also(request_id, result, error) ==
    IF error # NoError
    THEN [keys |-> {"jsonrpc", "id", "error", "result"}, id |-> request_id,
          result |-> result, error |-> error]
    ELSE [keys |-> {"jsonrpc", "id", "result"}, id |-> request_id,
          result |-> IF result = NoneResult THEN Payload("{}") ELSE result,
          error |-> NoError]

\* The JSON-RPC envelope of the normal path: "error" when error is not None,
\* otherwise "result" (an empty object for a None result).
Envelope(request_id, result, error) ==
    IF error # NoError
    THEN [keys |-> {"jsonrpc", "id", "error"}, id |-> request_id,
          result |-> NoneResult, error |-> error]
    ELSE [keys |-> {"jsonrpc", "id", "result"}, id |-> request_id,
          result |-> IF result = NoneResult THEN Payload("{}") ELSE result,
          error |-> NoError]

\* except Exception: the envelope of the internal-error path.
InternalError(calls) ==
    Response("MCPHandler", 200, "jsonrpc", {"jsonrpc", "id", "error"}, Null,
             NoneResult, Error(-32603, << "Internal error" >>), calls)

\* data.get('name') or data.get('tool') or ''
RestToolName(req) ==
    IF Truthy(Get(req.name)) THEN req.name
    ELSE IF Truthy(Get(req.tool)) THEN req.tool
    ELSE Str("")

\* A decoded arguments value is falsy when it is None, {} or another empty value.
ArgsTruthy(a) ==
    \/ a.t \in {"arr", "str"}
    \/ a.t = "obj" /\ \E k \in ArgKeys : a.f[k] # Missing

\* data.get('arguments') or {}
RestToolArgs(req) == IF ArgsTruthy(req.arguments) THEN req.arguments ELSE EmptyObj

\* params.get('arguments', {})
CallToolArgs(params) ==
    IF params.arguments.t = "missing" THEN EmptyObj ELSE params.arguments

\* The result of a protocol method (everything but tools/call).
ProtocolResult(method, enabled) ==
    IF method = "ping" THEN Payload("pong")
    ELSE IF method = "initialize"
         THEN [t |-> "initialize", text |-> << >>,
               tools |-> Names(_get_tools_definition(enabled))]
    ELSE IF method = "tools/list" THEN ToolList(Names(_get_tools_definition(enabled)))
    ELSE IF method = "resources/list" THEN Payload("resources")
    ELSE IF method = "prompts/list" THEN Payload("prompts")
    ELSE Payload("capabilities")

\* Lines 283-374: the body of the try block, for a body that parsed to a dict.
RouteRequest(req, enabled, dbUrl, jwt, out1, out2) ==
    LET method     == GetDefault(req.method, Str(""))
        params     == req.params
        request_id == Get(req.id)
    IN  IF req.path \in {"/api/execute", "/mcp/tools/call"}
        THEN LET d == _dispatch_tool(RestToolName(req), RestToolArgs(req),
                                     dbUrl, jwt, out1, out2)
             IN  IF d.raised THEN InternalError(d.calls)
                 ELSE Response("MCPHandler", 200, "rest", {"ok", "result", "error"},
                               Missing, d.result, d.error, d.calls)
        ELSE IF IsName(method, "notifications/initialized")
        THEN Response("MCPHandler", 204, "empty", {}, Missing, NoneResult, NoError, << >>)
        ELSE IF method.t = "str" /\ method.v \in ProtocolMethods
        THEN LET e == Envelope(request_id, ProtocolResult(method.v, enabled), NoError)
             IN  Response("MCPHandler", 200, "jsonrpc", e.keys, e.id, e.result, e.error, << >>)
        ELSE IF IsName(method, "tools/call")
        THEN IF params.t \notin {"missing", "obj"}
             THEN InternalError(<< >>)
             ELSE LET d == _dispatch_tool(GetDefault(params.name, Str("")),
                                          CallToolArgs(params), dbUrl, jwt, out1, out2)
                      e == Envelope(request_id, d.result, d.error)
                  IN  IF d.raised THEN InternalError(d.calls)
                      ELSE Response("MCPHandler", 200, "jsonrpc", e.keys, e.id,
                                    e.result, e.error, d.calls)
        ELSE LET e == Envelope(request_id, NoneResult,
                               Error(-32601, << "Method not found" >>))
             IN  Response("MCPHandler", 200, "jsonrpc", e.keys, e.id, e.result, e.error, << >>)

(***************************************************************************)
(* The socket.  wfile is unbuffered: end_headers and wfile.write each send *)
(* to the socket and raise when it refuses.  "ok": every write is taken.   *)
(* "headers": the first flush of the headers raises, later writes are      *)
(* taken.  "body": the headers are taken, the first write of a body        *)
(* raises, later writes are taken.  "headers_closed", "body_closed": the   *)
(* same first failure, and every later write raises too.                   *)
(***************************************************************************)
SocketFaults == {"headers", "body", "headers_closed", "body_closed"}

\* A write of the try block of do_POST raises while it sends response r: r is
\* not the answer of the except block, and a 204 has no body to write.
WriteRaises(r, socket) ==
    /\ ~r.escaped
    /\ r.error.code # -32603
    /\ \/ socket \in {"headers", "headers_closed"}
       \/ socket \in {"body", "body_closed"} /\ r.kind # "empty"

\* The except block tests nothing before its own send_response(200): after
\* a write of the try block raised it flushes a second status line.  A flush
\* that raised leaves its status line in the buffer of the next flush.
StatusLines(r, socket) ==
    IF r.escaped THEN 0
    ELSE IF socket = "ok" THEN 1
    ELSE IF WriteRaises(r, socket)
         THEN IF socket \in {"headers", "body"} THEN 2
              ELSE IF socket = "headers_closed" THEN 0
              ELSE 1
    ELSE IF socket \in {"headers", "headers_closed"} THEN 0 ELSE 1

OnSocket(r, socket) == [r EXCEPT !.statusLines = StatusLines(r, socket)]

\* do_POST with json.loads before the try block: a body that does not parse
\* raises out of the handler.
MCPHandler_do_POST_parse_outside_try(req, enabled, dbUrl, jwt, out1, out2) ==
    IF req.contentLength = "not_int" THEN Escaped("MCPHandler", << >>)
    ELSE IF req.body # "json" THEN Escaped("MCPHandler", << >>)
    ELSE IF req.top # "obj" THEN InternalError(<< >>)
    ELSE RouteRequest(req, enabled, dbUrl, jwt, out1, out2)

\* int(self.headers.get('Content-Length', 0)) is evaluated before the try block;
\* json.loads and data.get raise inside it.
MCPHandler_do_POST(req, enabled, dbUrl, jwt, out1, out2) ==
    OnSocket(IF req.contentLength = "not_int" THEN Escaped("MCPHandler", << >>)
             ELSE IF req.body # "json" THEN InternalError(<< >>)
             ELSE IF req.top # "obj" THEN InternalError(<< >>)
             ELSE RouteRequest(req, enabled, dbUrl, jwt, out1, out2),
             req.socket)

(***************************************************************************)
(* The records MCPHandler passes to the module's logger.  A record is the  *)
(* logging call it comes from, its level, and the set of texts taken from  *)
(* the request or the environment that its message contains.               *)
(***************************************************************************)
\* SUPABASE_URL = os.getenv("SUPABASE_URL", "https://api.recube.gg")
SUPABASE_URL == "https://api.recube.gg"

DATABASE_URL == "postgresql://<DATABASE_URL>"

SUPABASE_AUTH_JWT_SECRET == "<SUPABASE_AUTH_JWT_SECRET>"

\* The non-empty tokens of _redact.  SUPABASE_ANON_KEY and
\* SUPABASE_SERVICE_ROLE_KEY are unset in the environments of the model.
RedactTokens(dbUrl, jwt) ==
    {SUPABASE_URL}
    \cup (IF dbUrl THEN {DATABASE_URL} ELSE {})
    \cup (IF jwt THEN {SUPABASE_AUTH_JWT_SECRET} ELSE {})

\* redacted.replace(t, "***") for every non-empty token t.
_redact(texts, dbUrl, jwt) ==
    {IF x \in RedactTokens(dbUrl, jwt) THEN "***" ELSE x : x \in texts}

LogRecord(call, level, texts) ==
    [call |-> call, level |-> level, texts |-> texts, request_id |-> ""]

\* request_id = self.headers.get('X-Request-Id') or uuid.uuid4().hex[:8]: the
\* header of every request of the model.  Some of them carry the same text as
\* their JSON-RPC id.
X_Request_Id == "abc"

\* str(request_id) if request_id is not None else '-'
RequestIdText(j) == IF j.t \in {"str", "num"} THEN j.v ELSE "-"

\* The REQ line of _log_start and the RES line of _log_done.
_log_start(request_id, path) ==
    [LogRecord("REQ", "INFO", {path}) EXCEPT !.request_id = request_id]

_log_done(request_id) ==
    [LogRecord("RES", "INFO", {}) EXCEPT !.request_id = request_id]

\* The strings an f-string prints for a decoded JSON value.
Texts(j) == IF j.t = "str" THEN {j.v} ELSE {}

ArgTexts(a) == IF a.t = "obj" THEN UNION {Texts(a.f[k]) : k \in ArgKeys} ELSE {}

BodyTexts(req) ==
    Texts(req.id) \cup Texts(req.method) \cup Texts(req.name) \cup Texts(req.tool)
    \cup ArgTexts(req.arguments) \cup Texts(req.params.name)
    \cup ArgTexts(req.params.arguments)

\* logging.basicConfig(level=logging.INFO): debug records are dropped.
Emitted(records) == SelectSeq(records, LAMBDA r : r.level # "DEBUG")

\* logger.info(f"Tools/call: {tool_name} with args: {tool_args}")
LogToolsCall(tool_name, tool_args) ==
    LogRecord("Tools/call", "INFO", Texts(tool_name) \cup ArgTexts(tool_args))

\* The records of one do_POST that ended with response r, in order.
MCPHandler_do_POST_log(req, dbUrl, jwt, r) ==
    LET start   == << _log_start(X_Request_Id, req.path) >>
        preview == << LogRecord("body_preview", "DEBUG",
                                _redact(BodyTexts(req), dbUrl, jwt)) >>
        request == << LogRecord("MCP Request", "INFO",
                                Texts(GetDefault(req.method, Str(""))) \cup Texts(Get(req.id))) >>
        failed  == IF r.error.code = -32603 \/ WriteRaises(r, req.socket)
                   THEN << LogRecord("Erreur MCP", "ERROR", {}) >> ELSE << >>
        \* request_id = data.get('id', None) rebinds the name _log_done reads.
        done    == << _log_done(IF req.body = "json" /\ req.top = "obj"
                                THEN RequestIdText(Get(req.id)) ELSE X_Request_Id) >>
        call    == IF /\ req.path \notin {"/api/execute", "/mcp/tools/call"}
                      /\ IsName(GetDefault(req.method, Str("")), "tools/call")
                      /\ req.params.t \in {"missing", "obj"}
                   THEN << LogToolsCall(GetDefault(req.params.name, Str("")),
                                        CallToolArgs(req.params)) >>
                   ELSE << >>
    IN  Emitted(
          IF r.escaped THEN start
          ELSE IF req.body # "json" \/ req.top # "obj"
               THEN start \o preview \o failed \o done
          ELSE start \o preview \o request \o call \o failed \o done)

(***************************************************************************)
(* The attributes of the class MCPHandler: _response_code = None and       *)
(* _request_start_time = None (0 stands for None).  They belong to the     *)
(* process; what a handler binds on self belongs to its request.           *)
(***************************************************************************)
MCPHandlerClass == [_response_code |-> 0, _request_start_time |-> 0]

\* send_response that assigns MCPHandler._response_code, the attribute of the
\* class.
send_response_on_class(cls, code) ==
    [class |-> [cls EXCEPT !._response_code = code],
     self  |-> [cls EXCEPT !._response_code = code]]

\* self._response_code = code binds the attribute on the handler object; the
\* attribute of the class is read as the default and never written.
send_response(cls, code) ==
    [class |-> cls,
     self  |-> [cls EXCEPT !._response_code = code]]

\* The class after a handler that ended with response r: send_response ran
\* unless no status line was written.
ClassAfter(cls, r) == IF r.status = 0 THEN cls ELSE send_response(cls, r.status).class

(***************************************************************************)
(* MCPHandler.do_GET, do_HEAD, do_OPTIONS.  acceptJson: the Accept header  *)
(* contains application/json.                                              *)
(***************************************************************************)
JsonBody(keys, res) ==
    Response("MCPHandler", 200, "json", keys, Missing, res, NoError, << >>)

\* The tools body taken from the registry without the allow-list.
ToolsJson_unfiltered(enabled) == JsonBody({"tools"}, ToolList(Names(RegisteredTools)))

\* json.dumps({"tools": self._get_tools_definition()})
ToolsJson(enabled) == JsonBody({"tools"}, ToolList(Names(_get_tools_definition(enabled))))

\* send_error(404, "Not Found")
NotFound == Response("MCPHandler", 404, "html", {}, Missing, NoneResult, NoError, << >>)

HeadersOnly(st) == Response("MCPHandler", st, "empty", {}, Missing, NoneResult, NoError, << >>)

\* The liveness payloads: the status they report and the tool count they
\* print ("" when the payload has no "tools" key).
Health(status, tools) == [t |-> "health", text |-> << status, tools >>, tools |-> << >>]

\* "tools": 3 in MCPHandler.send_health_response
MCPHandlerHealthTools == 3

\* A health endpoint that answers with send_error(503).
MCPHandler_send_health_response_unavailable ==
    Response("MCPHandler", 503, "html", {}, Missing, NoneResult, NoError, << >>)

MCPHandler_send_health_response ==
    JsonBody({"status", "server", "version", "timestamp", "tools"},
             Health("healthy", ToString(MCPHandlerHealthTools)))

\* _make_mcp_intro_text and _make_tools_text are not defined anywhere: the
\* two text pages raise AttributeError, and do_GET has no try block.
MCPHandler_do_GET(path, acceptJson, enabled) ==
    IF path = "/health" THEN MCPHandler_send_health_response
    ELSE IF path = "/favicon.ico" THEN HeadersOnly(204)
    ELSE IF path = "/mcp"
    THEN IF acceptJson
         THEN JsonBody({"status", "transport", "jsonrpc", "endpoint", "methods"},
                       Payload("handshake"))
         ELSE Escaped("MCPHandler", << >>)
    ELSE IF path \in {"/.well-known/mcp-config", "/.well-known/mcp.json"}
    THEN JsonBody({"mcpServers"},
                  [t |-> "config", text |-> << >>,
                   tools |-> Names(_get_tools_definition(enabled))])
    ELSE IF path \in {"/mcp/tools.json", "/mcp-tools.json"} THEN ToolsJson(enabled)
    ELSE IF path \in {"/mcp/tools/list", "/mcp/tools", "/tools"}
    THEN IF path = "/mcp/tools" /\ ~acceptJson
         THEN Escaped("MCPHandler", << >>)
         ELSE ToolsJson(enabled)
    ELSE IF path \in {"/mcp/resources/list", "/mcp/resources", "/resources"}
    THEN JsonBody({"resources"}, Payload("resources"))
    ELSE IF path \in {"/mcp/prompts/list", "/mcp/prompts", "/prompts"}
    THEN JsonBody({"prompts"}, Payload("prompts"))
    ELSE IF path = "/api/tools" THEN ToolsJson(enabled)
    ELSE IF path = "/"
    THEN JsonBody({"status", "server", "version", "endpoints"}, Payload("landing"))
    ELSE NotFound

\* send_error writes no body when the command is HEAD.
MCPHandler_do_HEAD(path) ==
    IF path \in {"/health", "/", "/.well-known/mcp-config", "/.well-known/mcp.json", "/mcp"}
    THEN HeadersOnly(200)
    ELSE IF path \in {"/mcp/tools/list", "/mcp/resources/list", "/mcp/prompts/list",
                      "/mcp/tools.json", "/mcp-tools.json"}
    THEN HeadersOnly(200)
    ELSE IF path = "/favicon.ico" THEN HeadersOnly(204)
    ELSE HeadersOnly(404)

\* The headers a CORS preflight is answered with.
CorsHeaders == {"Access-Control-Allow-Origin", "Access-Control-Allow-Methods",
                "Access-Control-Allow-Headers"}

\* send_response(204); _set_cors_headers(); end_headers()
MCPHandler_do_OPTIONS == [HeadersOnly(204) EXCEPT !.cors = CorsHeaders]

\* do_GET and do_HEAD log through _log_start and _log_done; an exception
\* leaves do_GET before _log_done, do_OPTIONS logs nothing.
MCPHandler_log(verb, path, r) ==
    Emitted(IF verb = "OPTIONS" THEN << >>
            ELSE IF r.escaped THEN << _log_start(X_Request_Id, path) >>
            ELSE << _log_start(X_Request_Id, path), _log_done(X_Request_Id) >>)

(***************************************************************************)
(* MCPHubHandler.do_POST (src/mcp_hub.py)                                  *)
(***************************************************************************)
HubDescriptorTools == << "ping", "test_connection", "get_server_info", "get_capabilities",
                         "smithery_scan_test", "execute_sql", "check_health", "list_tables" >>

HubListedTools == << "ping", "test_connection", "get_server_info", "get_capabilities",
                     "smithery_scan_test" >>

\* The descriptor is a literal: its envelope carries "id": 1.
send_mcp_endpoint ==
    Response("MCPHubHandler", 200, "jsonrpc", {"jsonrpc", "id", "result"}, Num("1"),
             [t |-> "descriptor", text |-> << >>, tools |-> HubDescriptorTools],
             NoError, << >>)

send_mcp_config ==
    Response("MCPHubHandler", 200, "json", {"mcpServers", "capabilities", "server"},
             Missing, NoneResult, NoError, << >>)

send_hub_page ==
    Response("MCPHubHandler", 200, "html", {}, Missing, NoneResult, NoError, << >>)

send_404_response ==
    Response("MCPHubHandler", 404, "html", {}, Missing, NoneResult, NoError, << >>)

\* Only json.JSONDecodeError is caught: request_data.get on a value that is
\* not a dict raises AttributeError out of the handler.
handle_jsonrpc_request(req) ==
    LET method     == Get(req.method)
        request_id == Get(req.id)
        Result(r)  == Response("MCPHubHandler", 200, "jsonrpc", {"jsonrpc", "id", "result"},
                               request_id, r, NoError, << >>)
    IN  IF req.body # "json"
        THEN Response("MCPHubHandler", 400, "jsonrpc", {"jsonrpc", "id", "error"}, Null,
                      NoneResult, Error(-32700, << "Parse error" >>), << >>)
        ELSE IF req.top # "obj" THEN Escaped("MCPHubHandler", << >>)
        ELSE IF IsName(method, "initialize") THEN Result(Payload("initialize"))
        ELSE IF IsName(method, "tools/list") THEN Result(ToolList(HubListedTools))
        ELSE IF IsName(method, "ping") THEN Result(Payload("pong"))
        ELSE IF IsName(method, "notifications/initialized")
        THEN Response("MCPHubHandler", 200, "empty", {}, Missing, NoneResult, NoError, << >>)
        ELSE Response("MCPHubHandler", 200, "jsonrpc", {"jsonrpc", "id", "error"}, request_id,
                      NoneResult, Error(-32601, << "Method not found: ", method.v >>), << >>)

\* Paths are compared as the code compares them; the model's paths are the
\* members of Paths, of which only /mcp/tools/call starts with /mcp/.
MCPHubHandler_do_POST(req) ==
    IF req.path = "/mcp"
    THEN IF req.contentLength = "not_int" THEN Escaped("MCPHubHandler", << >>)
         ELSE send_mcp_endpoint
    ELSE IF req.path = "/"
    THEN IF req.contentLength = "not_int" THEN Escaped("MCPHubHandler", << >>)
         ELSE IF req.body # "empty" THEN handle_jsonrpc_request(req)
         ELSE send_hub_page
    ELSE IF req.path = "/mcp/tools/call"
    THEN IF req.contentLength = "not_int" THEN Escaped("MCPHubHandler", << >>)
         ELSE send_mcp_endpoint
    ELSE send_404_response

(***************************************************************************)
(* MCPHubHandler.do_GET                                                    *)
(***************************************************************************)
HubJson(keys, res) ==
    Response("MCPHubHandler", 200, "json", keys, Missing, res, NoError, << >>)

\* "tools": 20 in MCPHubHandler.send_health_response
HubHealthTools == 20

send_health_response ==
    HubJson({"status", "timestamp", "service", "version", "servers", "tools", "uptime",
             "healthcheck"},
            Health("UP", ToString(HubHealthTools)))

send_servers_api == HubJson({}, Payload("servers"))

\* The entries of the array of send_tools_api: name and server.
ApiTool(n, srv) == [name |-> n, server |-> srv]

HubApiTools ==
    << ApiTool("ping", "supabase-mcp"), ApiTool("test_connection", "supabase-mcp"),
       ApiTool("get_server_info", "supabase-mcp"), ApiTool("get_capabilities", "supabase-mcp"),
       ApiTool("smithery_scan_test", "supabase-mcp"), ApiTool("execute_sql", "supabase-mcp"),
       ApiTool("check_health", "supabase-mcp"), ApiTool("list_tables", "supabase-mcp"),
       ApiTool("read_file", "file-manager-mcp"), ApiTool("write_file", "file-manager-mcp"),
       ApiTool("compress_files", "file-manager-mcp"), ApiTool("search_files", "file-manager-mcp"),
       ApiTool("sync_directory", "file-manager-mcp"), ApiTool("get_file_info", "file-manager-mcp"),
       ApiTool("create_directory", "file-manager-mcp"), ApiTool("delete_files", "file-manager-mcp"),
       ApiTool("copy_files", "file-manager-mcp"), ApiTool("move_files", "file-manager-mcp"),
       ApiTool("watch_directory", "file-manager-mcp") >>

\* The body is a JSON array: text holds the server of each entry, tools its name.
send_tools_api ==
    HubJson({}, [t |-> "tools_api",
                 text  |-> [i \in DOMAIN HubApiTools |-> HubApiTools[i].server],
                 tools |-> [i \in DOMAIN HubApiTools |-> HubApiTools[i].name]])

\* self.path is compared with its query string; the paths of the model have none.
MCPHubHandler_do_GET(path) ==
    IF path = "/health" THEN send_health_response
    ELSE IF path = "/mcp" THEN send_mcp_endpoint
    ELSE IF path = "/.well-known/mcp-config" THEN send_mcp_config
    ELSE IF path = "/api/servers" THEN send_servers_api
    ELSE IF path = "/api/tools" THEN send_tools_api
    ELSE IF path = "/" THEN send_hub_page
    ELSE IF path \in {"/mcp/tools/list", "/mcp/tools", "/mcp/tools.json",
                      "/mcp/resources/list", "/mcp/resources", "/mcp/prompts/list",
                      "/mcp/prompts"}
    THEN send_mcp_endpoint
    ELSE send_404_response

MCPHubHandler_do_OPTIONS(path) ==
    IF path \in {"/mcp", "/.well-known/mcp-config", "/", "/mcp/tools/list", "/mcp/tools/call"}
    THEN [Response("MCPHubHandler", 200, "empty", {}, Missing, NoneResult, NoError, << >>)
            EXCEPT !.cors = CorsHeaders]
    ELSE send_404_response

(***************************************************************************)
(* SupabaseMCPHandler.do_POST (src/src/supabase_server.py)                 *)
(***************************************************************************)
SupabaseTools == << "execute_sql", "list_tables", "check_health", "list_auth_users",
                    "create_auth_user" >>

ExceptionText == "<str(e)>"

\* except Exception as e: 500 with {"error": str(e)}.
SupabaseError ==
    Response("SupabaseMCPHandler", 500, "json", {"error"}, Missing,
             [t |-> "error", text |-> << ExceptionText >>, tools |-> << >>],
             NoError, << >>)

\* POST / : every method but tools/list is answered as initialize.
SupabasePostRoot(req) ==
    LET method == GetDefault(req.method, Str(""))
        Result(id, r) == Response("SupabaseMCPHandler", 200, "jsonrpc",
                                  {"jsonrpc", "id", "result"}, id, r, NoError, << >>)
    IN  IF req.contentLength = "not_int" THEN SupabaseError
        ELSE IF req.body \in {"malformed", "not_utf8"} THEN SupabaseError
        ELSE IF req.body = "json" /\ req.top # "obj" THEN SupabaseError
        ELSE IF req.body = "empty"
             THEN Result(Str("config"), [t |-> "initialize", text |-> << >>,
                                         tools |-> SupabaseTools])
        ELSE IF IsName(method, "tools/list")
             THEN Result(GetDefault(req.id, Str("tools")), ToolList(SupabaseTools))
        ELSE Result(GetDefault(req.id, Str("config")),
                    [t |-> "initialize", text |-> << >>, tools |-> SupabaseTools])

\* POST /mcp : tools/call answers every tool name with a placeholder result.
SupabasePostMcp(req) ==
    LET method == GetDefault(req.method, Str(""))
        id     == GetDefault(req.id, Str("unknown"))
        Result(r) == Response("SupabaseMCPHandler", 200, "jsonrpc",
                              {"jsonrpc", "id", "result"}, id, r, NoError, << >>)
    IN  IF req.contentLength = "not_int" THEN SupabaseError
        ELSE IF req.body # "json" THEN SupabaseError
        ELSE IF req.top # "obj" THEN SupabaseError
        ELSE IF IsName(method, "initialize")
             THEN Result([t |-> "initialize", text |-> << >>, tools |-> SupabaseTools])
        ELSE IF IsName(method, "tools/list") THEN Result(ToolList(SupabaseTools))
        ELSE IF IsName(method, "tools/call")
             THEN IF req.params.t \notin {"missing", "obj"} THEN SupabaseError
                  ELSE Result(Content(<< "Tool '", GetDefault(req.params.name, Str("")).v,
                                         "' called successfully. This is a placeholder response." >>))
        ELSE Response("SupabaseMCPHandler", 200, "jsonrpc", {"jsonrpc", "id", "error"}, id,
                      NoneResult, Error(-32601, << "Method not found" >>), << >>)

SupabaseMCPHandler_do_POST(req) ==
    IF req.path = "/" THEN SupabasePostRoot(req)
    ELSE IF req.path = "/mcp" THEN SupabasePostMcp(req)
    ELSE Response("SupabaseMCPHandler", 404, "text", {}, Missing, NoneResult, NoError, << >>)

(***************************************************************************)
(* SupabaseMCPHandler.do_GET                                               *)
(***************************************************************************)
SupabaseJson(keys, res) ==
    Response("SupabaseMCPHandler", 200, "json", keys, Missing, res, NoError, << >>)

\* "tools": 5 in SupabaseMCPHandler.do_GET
SupabaseHealthTools == 5

SupabaseMCPHandler_do_GET(path) ==
    IF path = "/health"
    THEN SupabaseJson({"status", "message", "tools", "supabase_connected", "timestamp"},
                      Health("healthy", ToString(SupabaseHealthTools)))
    ELSE IF path = "/.well-known/mcp-config"
    THEN SupabaseJson({"mcpServers"}, Payload("config"))
    ELSE IF path = "/test"
    THEN SupabaseJson({"status", "message", "tools"}, Payload("test"))
    ELSE IF path = "/"
    THEN Response("SupabaseMCPHandler", 200, "html", {}, Missing, NoneResult, NoError, << >>)
    ELSE Response("SupabaseMCPHandler", 404, "text", {}, Missing, NoneResult, NoError, << >>)

SupabaseMCPHandler_do_OPTIONS ==
    [Response("SupabaseMCPHandler", 200, "empty", {}, Missing, NoneResult, NoError, << >>)
        EXCEPT !.cors = CorsHeaders]

(***************************************************************************)
(* The servers that only answer the health check: main.py,                 *)
(* minimal_server.py, ultra_simple_server.py (every other path is a 200    *)
(* page) and healthcheck_server.py, hybrid_server.py,                      *)
(* simple_http_server.py (a page on /, 404 elsewhere).                     *)
(***************************************************************************)
PageServers == {"main", "minimal_server", "ultra_simple_server"}

HealthServers == PageServers \cup {"healthcheck_server", "hybrid_server", "simple_http_server"}

HealthKeys(server) ==
    IF server = "main" THEN {"status", "timestamp", "service", "version"}
    ELSE IF server \in {"minimal_server", "ultra_simple_server"} THEN {"status", "timestamp"}
    ELSE IF server = "healthcheck_server"
         THEN {"status", "service", "version", "timestamp", "mcp_server"}
    ELSE IF server = "hybrid_server"
         THEN {"status", "timestamp", "service", "mcp_tools", "version", "mcp_available"}
    ELSE {"status", "timestamp", "service", "version", "healthcheck"}

HealthServer_do_GET(server, path) ==
    IF path = "/health"
    THEN Response(server, 200, "json", HealthKeys(server), Missing,
                  Health(IF server = "healthcheck_server" THEN "healthy" ELSE "UP", ""),
                  NoError, << >>)
    ELSE IF server \in PageServers \/ path = "/"
    THEN Response(server, 200, "html", {}, Missing, NoneResult, NoError, << >>)
    ELSE Response(server, 404, "html", {}, Missing, NoneResult, NoError, << >>)

(***************************************************************************)
(* The requests of the model.                                              *)
(*   contentLength  "int" / "not_int": the Content-Length header           *)
(*   body           "json", or why the bytes read are not JSON:            *)
(*                  "malformed", "empty", "not_utf8"                       *)
(*   top            the type of the decoded JSON value                     *)
(*   id, method, params, name, tool, arguments: the keys of a decoded      *)
(*                  object that the handlers read                          *)
(***************************************************************************)
MaxArgKeys == 1

Paths == {"/mcp", "/", "/api/execute", "/mcp/tools/call"}

Ids == {Missing, Num("7"), Str("abc")}

MethodVals == {Missing, Null, Num("5"), Str(""), Str("unknown_method"),
               Str("notifications/initialized"), Str("tools/call")}
              \cup {Str(m) : m \in ProtocolMethods}

NameVals == {Str(n) : n \in RegisteredNames}
            \cup {Missing, Null, Num("5"), Str(""), Str("no_such_tool")}

\* Among the values of an argument: a string that holds the value of SUPABASE_URL.
ArgFieldVals == {Null, Str(""), Str("x"), Str(SUPABASE_URL)}

NoArgs == [t |-> "missing", f |-> NoArgFields]

\* Argument values that are not a JSON object, and the empty object.
ArgShapes == {NoArgs, EmptyObj} \cup {[t |-> k, f |-> NoArgFields] : k \in {"null", "arr", "str"}}

\* Objects with at most MaxArgKeys of the keys the tools read.
ArgObjects ==
    {[t |-> "obj", f |-> g] :
        g \in {h \in [ArgKeys -> {Missing} \cup ArgFieldVals] :
                 Cardinality({k \in ArgKeys : h[k] # Missing}) \in 1..MaxArgKeys}}

\* The names whose calls are tried with every object of ArgObjects.
ArgNames == {Str(n) : n \in {"execute_sql", "get_auth_user", "list_storage_objects",
                             "apply_migration", "search_docs", "no_such_tool"}}

NoParams == [t |-> "missing", name |-> Missing, arguments |-> NoArgs]

ParamVals ==
    {[t |-> k, name |-> Missing, arguments |-> NoArgs] : k \in {"null", "arr", "str"}}
    \cup {[t |-> "obj", name |-> n, arguments |-> a] : n \in NameVals, a \in ArgShapes}
    \cup {[t |-> "obj", name |-> n, arguments |-> a] : n \in ArgNames, a \in ArgObjects}

\* A POST request.  verb and acceptJson are what GET, HEAD and OPTIONS read;
\* socket is how the connection takes the writes of the answer.
Request(path, cl, body, top, id, method, params, name, tool, arguments) ==
    [verb |-> "POST", acceptJson |-> FALSE, socket |-> "ok",
     path |-> path, contentLength |-> cl, body |-> body, top |-> top, id |-> id,
     method |-> method, params |-> params, name |-> name, tool |-> tool,
     arguments |-> arguments]

NoRequest == Request("", "int", "empty", "null", Missing, Missing, NoParams,
                     Missing, Missing, NoArgs)

\* Bodies that do not decode to a JSON object, and an unreadable Content-Length.
BadRequests ==
    {Request(p, "not_int", "empty", "null", Missing, Missing, NoParams, Missing, Missing, NoArgs)
        : p \in Paths}
    \cup {Request(p, "int", b, "null", Missing, Missing, NoParams, Missing, Missing, NoArgs)
        : p \in Paths, b \in {"malformed", "empty", "not_utf8"}}
    \cup {Request(p, "int", "json", t, Missing, Missing, NoParams, Missing, Missing, NoArgs)
        : p \in Paths, t \in {"arr", "str", "num", "null"}}

\* JSON-RPC requests of every method but tools/call with params.
ProtocolRequests ==
    {Request(p, "int", "json", "obj", i, m, NoParams, Missing, Missing, NoArgs)
        : p \in {"/mcp", "/"}, i \in Ids, m \in MethodVals}

ToolCallRequests ==
    {Request("/mcp", "int", "json", "obj", i, Str("tools/call"), ps, Missing, Missing, NoArgs)
        : i \in Ids, ps \in ParamVals}

\* The REST mirror: {"name" or "tool": ..., "arguments": ...}.
RestRequests ==
    {Request(p, "int", "json", "obj", Missing, Missing, NoParams, n, Missing, a)
        : p \in {"/api/execute", "/mcp/tools/call"}, n \in NameVals, a \in ArgShapes}
    \cup {Request("/api/execute", "int", "json", "obj", Num("7"), Missing, NoParams, n, Missing, a)
        : n \in ArgNames, a \in ArgObjects}
    \cup {Request("/api/execute", "int", "json", "obj", Missing, Missing, NoParams, n, t, NoArgs)
        : n \in {Missing, Str("")}, t \in {Missing, Str("check_health"), Str("no_such_tool")}}

\* The requests answered over a socket that refuses a write: those without
\* arguments, of every branch of do_POST.
FaultedRequests ==
    {[r EXCEPT !.socket = f] :
        r \in {q \in BadRequests \cup ProtocolRequests \cup RestRequests :
                 /\ q.arguments = NoArgs
                 /\ q.name \in {Missing, Str("check_health"), Str("no_such_tool")}},
        f \in SocketFaults}

PostRequests ==
    BadRequests \cup ProtocolRequests \cup ToolCallRequests \cup RestRequests
    \cup FaultedRequests

\* A request without a body: GET, HEAD, OPTIONS.
Bodiless(verb, path, acceptJson) ==
    [NoRequest EXCEPT !.verb = verb, !.path = path, !.acceptJson = acceptJson,
                      !.body = "none"]

GetPaths == {"/health", "/favicon.ico", "/mcp", "/.well-known/mcp-config",
             "/.well-known/mcp.json", "/mcp/tools.json", "/mcp-tools.json",
             "/mcp/tools/list", "/mcp/tools", "/tools", "/mcp/resources/list",
             "/mcp/resources", "/resources", "/mcp/prompts/list", "/mcp/prompts",
             "/prompts", "/api/tools", "/", "/nowhere"}

GetRequests == {Bodiless("GET", p, a) : p \in GetPaths, a \in BOOLEAN}

HeadRequests == {Bodiless("HEAD", p, FALSE) : p \in GetPaths}

OptionsRequests == {Bodiless("OPTIONS", p, FALSE) : p \in {"/mcp", "/nowhere"}}

\* GET on the other servers: their own paths and some of MCPHandler's.
OtherGetPaths == {"/health", "/", "/mcp", "/.well-known/mcp-config", "/api/servers",
                  "/api/tools", "/mcp/tools/list", "/test", "/nowhere"}

OtherGetRequests == {Bodiless("GET", p, FALSE) : p \in OtherGetPaths}

(***************************************************************************)
(* The allow-list files and the environments of the model.                 *)
(***************************************************************************)
ToolsConfig(file, a, b) == [file |-> file, enabledTools |-> a, enabled_tools |-> b]

Configs ==
    { ToolsConfig("absent", NoList, NoList),
      ToolsConfig("invalid", NoList, NoList),
      ToolsConfig("ok", NoList, NoList),
      ToolsConfig("ok", NotAList, NoList),
      ToolsConfig("ok", ListOf({"execute_sql", "check_health", "list_tables"}), NoList),
      ToolsConfig("ok", ListOf({"list_tables", "no_such_tool"}), NoList),
      ToolsConfig("ok", ListOf({"no_such_tool"}), NoList),
      ToolsConfig("ok", ListOf({}), NoList),
      ToolsConfig("ok", ListOf({}), ListOf({})),
      ToolsConfig("ok", NoList, ListOf({"search_docs", "list_storage_objects"})) }

(***************************************************************************)
(* State.                                                                  *)
(*   config         the allow-list file found at import                    *)
(*   ENABLED_TOOLS  the module global computed from it                     *)
(*   databaseUrl    DATABASE_URL is set                                    *)
(*   jwtSecret      SUPABASE_AUTH_JWT_SECRET is set                        *)
(*   pc             "idle", or "done" once the request in req is answered  *)
(*   req, resp      the request being handled and what the handler wrote   *)
(*   store          how the request's uses of the backing store ended      *)
(*   log            the records MCPHandler's logger emitted for the request *)
(*   classAttrs     the attributes of the class MCPHandler                 *)
(***************************************************************************)
VARIABLES config, ENABLED_TOOLS, databaseUrl, jwtSecret, pc, req, resp, store, log,
          classAttrs

vars == << config, ENABLED_TOOLS, databaseUrl, jwtSecret, pc, req, resp, store, log,
          classAttrs >>

env == << config, ENABLED_TOOLS, databaseUrl, jwtSecret >>

NoStore == << "rows", "rows" >>

Init ==
    /\ config \in Configs
    /\ ENABLED_TOOLS = _load_enabled_tools(config)
    /\ databaseUrl \in BOOLEAN
    /\ jwtSecret \in BOOLEAN
    /\ pc = "idle"
    /\ req = NoRequest
    /\ resp = NoResponse
    /\ store = NoStore
    /\ log = << >>
    /\ classAttrs = MCPHandlerClass

\* The outcomes of the store that the request can meet: one per use of the
\* store the handler makes when every use succeeds.
StoreOutcomes(r) ==
    LET uses == Len(SelectSeq(
                    MCPHandler_do_POST(r, ENABLED_TOOLS, databaseUrl, jwtSecret,
                                       "rows", "rows").calls,
                    LAMBDA e : e.op = "connect"))
    IN  IF uses = 0 THEN {NoStore}
        ELSE IF uses = 1 THEN {<< o, "rows" >> : o \in DbOutcomes}
        ELSE DbOutcomes \X DbOutcomes

MCPHandlerPost ==
    /\ pc = "idle"
    /\ \E r \in PostRequests :
         \E s \in StoreOutcomes(r) :
            /\ req' = r
            /\ store' = s
            /\ resp' = MCPHandler_do_POST(r, ENABLED_TOOLS, databaseUrl, jwtSecret, s[1], s[2])
            /\ log' = MCPHandler_do_POST_log(r, databaseUrl, jwtSecret, resp')
    /\ classAttrs' = ClassAfter(classAttrs, resp')
    /\ pc' = "done"
    /\ UNCHANGED env

MCPHubHandlerPost ==
    /\ pc = "idle"
    /\ \E r \in BadRequests \cup ProtocolRequests \cup ToolCallRequests :
            /\ req' = r
            /\ resp' = MCPHubHandler_do_POST(r)
    /\ store' = NoStore
    /\ log' = << >>
    /\ pc' = "done"
    /\ UNCHANGED << env, classAttrs >>

SupabaseMCPHandlerPost ==
    /\ pc = "idle"
    /\ \E r \in BadRequests \cup ProtocolRequests \cup ToolCallRequests :
            /\ req' = r
            /\ resp' = SupabaseMCPHandler_do_POST(r)
    /\ store' = NoStore
    /\ log' = << >>
    /\ pc' = "done"
    /\ UNCHANGED << env, classAttrs >>

MCPHandlerGet ==
    /\ pc = "idle"
    /\ \E r \in GetRequests :
            /\ req' = r
            /\ resp' = MCPHandler_do_GET(r.path, r.acceptJson, ENABLED_TOOLS)
    /\ log' = MCPHandler_log("GET", req'.path, resp')
    /\ classAttrs' = ClassAfter(classAttrs, resp')
    /\ store' = NoStore
    /\ pc' = "done"
    /\ UNCHANGED env

MCPHandlerHead ==
    /\ pc = "idle"
    /\ \E r \in HeadRequests :
            /\ req' = r
            /\ resp' = MCPHandler_do_HEAD(r.path)
    /\ log' = MCPHandler_log("HEAD", req'.path, resp')
    /\ classAttrs' = ClassAfter(classAttrs, resp')
    /\ store' = NoStore
    /\ pc' = "done"
    /\ UNCHANGED env

MCPHandlerOptions ==
    /\ pc = "idle"
    /\ \E r \in OptionsRequests :
            /\ req' = r
            /\ resp' = MCPHandler_do_OPTIONS
    /\ log' = MCPHandler_log("OPTIONS", req'.path, resp')
    /\ classAttrs' = ClassAfter(classAttrs, resp')
    /\ store' = NoStore
    /\ pc' = "done"
    /\ UNCHANGED env

MCPHubHandlerGet ==
    /\ pc = "idle"
    /\ \E r \in OtherGetRequests :
            /\ req' = r
            /\ resp' = MCPHubHandler_do_GET(r.path)
    /\ store' = NoStore
    /\ log' = << >>
    /\ pc' = "done"
    /\ UNCHANGED << env, classAttrs >>

SupabaseMCPHandlerGet ==
    /\ pc = "idle"
    /\ \E r \in OtherGetRequests :
            /\ req' = r
            /\ resp' = SupabaseMCPHandler_do_GET(r.path)
    /\ store' = NoStore
    /\ log' = << >>
    /\ pc' = "done"
    /\ UNCHANGED << env, classAttrs >>

MCPHubHandlerOptions ==
    /\ pc = "idle"
    /\ \E r \in OptionsRequests :
            /\ req' = r
            /\ resp' = MCPHubHandler_do_OPTIONS(r.path)
    /\ store' = NoStore
    /\ log' = << >>
    /\ pc' = "done"
    /\ UNCHANGED << env, classAttrs >>

SupabaseMCPHandlerOptions ==
    /\ pc = "idle"
    /\ \E r \in OptionsRequests :
            /\ req' = r
            /\ resp' = SupabaseMCPHandler_do_OPTIONS
    /\ store' = NoStore
    /\ log' = << >>
    /\ pc' = "done"
    /\ UNCHANGED << env, classAttrs >>

HealthServerGet ==
    /\ pc = "idle"
    /\ \E r \in OtherGetRequests, server \in HealthServers :
            /\ req' = r
            /\ resp' = HealthServer_do_GET(server, r.path)
    /\ store' = NoStore
    /\ log' = << >>
    /\ pc' = "done"
    /\ UNCHANGED << env, classAttrs >>

\* The handler object is discarded when its request is answered.
Finish ==
    /\ pc = "done"
    /\ pc' = "idle"
    /\ req' = NoRequest
    /\ resp' = NoResponse
    /\ store' = NoStore
    /\ log' = << >>
    /\ UNCHANGED << env, classAttrs >>

Next ==
    \/ MCPHandlerPost \/ MCPHandlerGet \/ MCPHandlerHead \/ MCPHandlerOptions
    \/ MCPHubHandlerPost \/ MCPHubHandlerGet \/ MCPHubHandlerOptions
    \/ SupabaseMCPHandlerPost \/ SupabaseMCPHandlerGet \/ SupabaseMCPHandlerOptions
    \/ HealthServerGet
    \/ Finish

Spec == Init /\ [][Next]_vars

(***************************************************************************)
(* Vocabulary of the properties.                                           *)
(***************************************************************************)
Answered(h) == pc = "done" /\ resp.handler = h

\* The body was read and decoded to a JSON object.
DecodedObject == req.contentLength = "int" /\ req.body = "json" /\ req.top = "obj"

RestPath == req.path \in {"/api/execute", "/mcp/tools/call"}

\* A JSON-RPC tools/call request whose params the handler can read.
IsToolsCall ==
    /\ DecodedObject
    /\ ~RestPath
    /\ IsName(req.method, "tools/call")
    /\ req.params.t \in {"missing", "obj"}

\* The tool a request names and the arguments it passes, as the handler reads them.
CalledName == IF RestPath THEN RestToolName(req) ELSE GetDefault(req.params.name, Str(""))

CalledArgs == IF RestPath THEN RestToolArgs(req) ELSE CallToolArgs(req.params)

IsToolRequest == DecodedObject /\ (RestPath \/ IsToolsCall)

Executed(op) == \E i \in DOMAIN resp.calls : resp.calls[i].op = op

(***************************************************************************)
(* C1  For every JSON-RPC request POSTed with a present id, the id of the  *)
(* response envelope equals the id of the request (MCPHandler.do_POST, and *)
(* MCPHubHandler on POST /mcp and POST / with a body).                     *)
(* Fails: MCPHandler answers a request whose params or arguments it cannot *)
(* read with "id": null, and the hub's POST /mcp always answers "id": 1.   *)
(***************************************************************************)
C1_ResponseIdEchoesRequestId ==
    ( /\ pc = "done"
      /\ resp.handler \in {"MCPHandler", "MCPHubHandler"}
      /\ DecodedObject
      /\ req.path \in {"/mcp", "/"}
      /\ req.id # Missing
      /\ resp.kind = "jsonrpc" )
    => resp.id = req.id

(***************************************************************************)
(* C2  Every JSON-RPC envelope written by MCPHandler.do_POST carries       *)
(* exactly one of the keys result / error, and the key it carries is       *)
(* populated: an error object under "error", a non-null value under        *)
(* "result".                                                               *)
(***************************************************************************)
C2_ExactlyOneOfResultError ==
    (Answered("MCPHandler") /\ resp.kind = "jsonrpc")
    => /\ Cardinality(resp.keys \cap {"result", "error"}) = 1
       /\ "error" \in resp.keys <=> resp.error # NoError
       /\ "result" \in resp.keys <=> resp.result # NoneResult

\* A tool error returned through the normal path, and so through Envelope.
C2_Witness ==
    /\ Answered("MCPHandler")
    /\ IsToolsCall
    /\ resp.kind = "jsonrpc"
    /\ resp.keys = {"jsonrpc", "id", "error"}
    /\ resp.error.code = -32602
    /\ resp.id = req.id

(***************************************************************************)
(* C3  A POSTed request without an id is answered 204 with an empty body   *)
(* and no envelope; a request with an id is answered with an envelope.     *)
(* Fails: MCPHandler decides on the method name, not on the id: ping       *)
(* without an id gets an envelope with "id": null, and                     *)
(* notifications/initialized with an id gets 204.                          *)
(***************************************************************************)
C3_NotificationIffNoId ==
    (Answered("MCPHandler") /\ DecodedObject /\ ~RestPath)
    => /\ req.id = Missing => (resp.status = 204 /\ resp.kind = "empty")
       /\ req.id # Missing => resp.kind = "jsonrpc"

(***************************************************************************)
(* C4  tools/list returns exactly the registered tools whose name is in    *)
(* the configured allow-list (all of them when none is configured), in     *)
(* registration order, for every allow-list, the empty one included.       *)
(* Fails: an empty allow-list is treated as no allow-list.                 *)
(***************************************************************************)
C4_Expected ==
    IF ENABLED_TOOLS.none THEN Names(RegisteredTools)
    ELSE Names(SelectSeq(RegisteredTools, LAMBDA t : t.name \in ENABLED_TOOLS.names))

C4_ToolsListIsAllowList ==
    ( /\ Answered("MCPHandler")
      /\ DecodedObject
      /\ ~RestPath
      /\ IsName(req.method, "tools/list") )
    => /\ resp.result.t = "tools"
       /\ resp.result.tools = C4_Expected

(***************************************************************************)
(* C5  With a (non-empty) allow-list configured, a call naming a tool that *)
(* is not in it yields -32601 and runs no handler, on tools/call and on    *)
(* the REST mirror.                                                        *)
(* Fails: _dispatch_tool never consults ENABLED_TOOLS.                     *)
(***************************************************************************)
C5_HiddenToolNotCallable ==
    ( /\ Answered("MCPHandler")
      /\ IsToolRequest
      /\ ~ENABLED_TOOLS.none
      /\ ENABLED_TOOLS.names # {}
      /\ ~(CalledName.t = "str" /\ CalledName.v \in ENABLED_TOOLS.names) )
    => /\ resp.error.code = -32601
       /\ resp.result = NoneResult
       /\ resp.calls = << >>

(***************************************************************************)
(* C6  tools/call with a tool name that is not registered (a missing or    *)
(* empty name included) yields error -32601 whatever the arguments are.    *)
(* Fails: SupabaseMCPHandler answers every tool name with a placeholder    *)
(* result.                                                                 *)
(***************************************************************************)
C6_Registry(h) == IF h = "MCPHandler" THEN RegisteredNames ELSE Range(SupabaseTools)

C6_UnknownToolIsMethodNotFound ==
    ( /\ pc = "done"
      /\ resp.handler \in {"MCPHandler", "SupabaseMCPHandler"}
      /\ req.path = "/mcp"
      /\ IsToolsCall
      /\ ~(CalledName.t = "str" /\ CalledName.v \in C6_Registry(resp.handler)) )
    => /\ resp.kind = "jsonrpc"
       /\ resp.error.code = -32601

(***************************************************************************)
(* C7  tools/call on execute_sql without the sql argument yields -32602    *)
(* and executes no SQL, with DATABASE_URL set or not.                      *)
(* Fails: the handler defaults sql to SELECT 1 and runs it (or simulates   *)
(* success when DATABASE_URL is not set).                                  *)
(***************************************************************************)
C7_ExecuteSqlRequiresSql ==
    ( /\ Answered("MCPHandler")
      /\ IsToolsCall
      /\ IsName(CalledName, "execute_sql")
      /\ CalledArgs.t = "obj"
      /\ CalledArgs.f["sql"] = Missing )
    => /\ resp.error.code = -32602
       /\ ~Executed("execute")

(***************************************************************************)
(* C8  For every tool whose inputSchema declares a required parameter, a   *)
(* tools/call that omits it yields -32602 and never a result.              *)
(* Fails: only list_storage_objects checks its required parameter.         *)
(***************************************************************************)
C8_OmitsRequired ==
    \E i \in DOMAIN RegisteredTools :
        /\ IsName(CalledName, RegisteredTools[i].name)
        /\ \E k \in RegisteredTools[i].required : CalledArgs.f[k] = Missing

C8_RequiredParametersEnforced ==
    ( /\ Answered("MCPHandler")
      /\ IsToolsCall
      /\ CalledArgs.t = "obj"
      /\ C8_OmitsRequired )
    => /\ resp.error.code = -32602
       /\ "result" \notin resp.keys

(***************************************************************************)
(* C9  A POSTed JSON object without a method (or with an empty or          *)
(* non-string one) is rejected with -32600 and reaches no handler.         *)
(* Fails: MCPHandler has no InvalidRequest path; it answers -32601.        *)
(***************************************************************************)
C9_NoMethod == req.method.t # "str" \/ req.method.v = ""

C9_MissingMethodIsInvalidRequest ==
    (Answered("MCPHandler") /\ DecodedObject /\ ~RestPath /\ C9_NoMethod)
    => /\ resp.kind = "jsonrpc"
       /\ resp.error.code = -32600
       /\ resp.calls = << >>

(***************************************************************************)
(* C10  A POST whose body cannot be parsed as JSON (malformed, empty, not  *)
(* UTF-8) yields a JSON-RPC error envelope with code -32700.               *)
(***************************************************************************)
C10_Unparsable == req.verb = "POST" /\ req.contentLength = "int" /\ req.body # "json"

C10_UnparsableIsParseError ==
    (Answered("MCPHandler") /\ C10_Unparsable)
    => /\ resp.kind = "jsonrpc"
       /\ resp.error.code = -32700

\* C10 as amended: in MCPHandler.do_POST a body that was read and cannot be
\* parsed as JSON yields HTTP 200 with the internal-error envelope: "id": null
\* and error code -32603 (never -32700).
C10_UnparsableIsInternalError ==
    (Answered("MCPHandler") /\ C10_Unparsable)
    => /\ resp.status = 200
       /\ resp.kind = "jsonrpc"
       /\ resp.keys = {"jsonrpc", "id", "error"}
       /\ resp.id = Null
       /\ resp.error = Error(-32603, << "Internal error" >>)
       /\ ~resp.escaped

C10_Witness ==
    /\ Answered("MCPHandler")
    /\ req.path = "/mcp"
    /\ req.body = "malformed"
    /\ req.contentLength = "int"
    /\ resp.error.code = -32603

(***************************************************************************)
(* C11  A request whose method is not in the method catalogue yields error *)
(* -32601 with the message "Method not found: " followed by the method,    *)
(* and the id of the request.                                              *)
(* Fails: MCPHandler's message is "Method not found", without the method.  *)
(***************************************************************************)
MethodCatalogue == ProtocolMethods \cup {"notifications/initialized", "tools/call"}

\* The request reached the method dispatch of MCPHandler.do_POST or of
\* MCPHubHandler.handle_jsonrpc_request.
Dispatched ==
    /\ pc = "done"
    /\ DecodedObject
    /\ \/ resp.handler = "MCPHandler" /\ ~RestPath
       \/ resp.handler = "MCPHubHandler" /\ req.path = "/"

C11_UnknownMethod ==
    req.method.t = "str" /\ req.method.v # "" /\ req.method.v \notin MethodCatalogue

C11_MethodNotFoundNamesMethod ==
    (Dispatched /\ C11_UnknownMethod)
    => /\ resp.kind = "jsonrpc"
       /\ resp.error = Error(-32601, << "Method not found: ", req.method.v >>)
       /\ resp.id = Get(req.id)

(***************************************************************************)
(* C12  Every POST handled by MCPHandler.do_POST ends with a response: no  *)
(* exception leaves do_POST, a failure while reading the Content-Length    *)
(* header included.                                                        *)
(* Fails: int(Content-Length) is evaluated before the try block.           *)
(***************************************************************************)
C12_NoExceptionEscapes ==
    (Answered("MCPHandler") /\ req.verb = "POST")
    => /\ ~resp.escaped
       /\ resp.status # 0
       /\ resp.kind # "none"

(***************************************************************************)
(* C13  Every error a tool handler of MCPHandler returns for an execution  *)
(* failure (the store is unreachable, the store rejects the statement,     *)
(* DATABASE_URL is missing) carries a code in -32099..-32000 and never     *)
(* -32603; in particular list_tables with an unreachable store.            *)
(***************************************************************************)
StoreFailed == Executed("connect_failed") \/ Executed("error")

MissingDatabaseUrl ==
    \E i \in DOMAIN resp.error.message : resp.error.message[i] = "Missing DATABASE_URL"

C13_ExecutionFailureHasToolCode ==
    ( /\ Answered("MCPHandler")
      /\ IsToolRequest
      /\ resp.error # NoError
      /\ StoreFailed \/ MissingDatabaseUrl )
    => /\ resp.error.code \in -32099 .. -32000
       /\ resp.error.code # -32603

\* tools/call list_tables while the store is unreachable.
C13_Witness ==
    /\ Answered("MCPHandler")
    /\ IsToolsCall
    /\ IsName(CalledName, "list_tables")
    /\ Executed("connect_failed")
    /\ resp.error.code = -32002

(***************************************************************************)
(* C14  No log record emitted while MCPHandler handles a request contains  *)
(* the value of a configured secret (SUPABASE_URL, DATABASE_URL,           *)
(* SUPABASE_AUTH_JWT_SECRET, ...), whatever the body and the tool          *)
(* arguments of the request contain.                                       *)
(* Fails: the record "Tools/call: <name> with args: <arguments>" prints    *)
(* the arguments as they came, without _redact.                            *)
(***************************************************************************)
C14_NoSecretInLog ==
    Answered("MCPHandler")
    => \A i \in DOMAIN log :
          log[i].texts \cap RedactTokens(databaseUrl, jwtSecret) = {}

(***************************************************************************)
(* C15  ping is idempotent and free of side effects: whatever requests     *)
(* came before, a ping POSTed to a JSON-RPC path of MCPHandler or of       *)
(* MCPHubHandler is answered with a result that contains "pong": true,     *)
(* uses no store, and leaves the allow-list, the registry and the          *)
(* environment as they were.                                               *)
(* Fails: the hub's POST /mcp does not read the method and answers the     *)
(* server descriptor (the defect of C1).                                   *)
(***************************************************************************)
IsPing ==
    /\ pc = "done"
    /\ resp.handler \in {"MCPHandler", "MCPHubHandler"}
    /\ DecodedObject
    /\ req.path \in {"/mcp", "/"}
    /\ IsName(req.method, "ping")

C15_PingIsPure ==
    [][ IsPing'
        => /\ resp'.status = 200
           /\ resp'.kind = "jsonrpc"
           /\ resp'.result = Payload("pong")
           /\ resp'.error = NoError
           /\ resp'.calls = << >>
           /\ env' = env
           /\ _get_tools_definition(ENABLED_TOOLS') = _get_tools_definition(ENABLED_TOOLS)
      ]_vars

(***************************************************************************)
(* C16  No failure of the store is swallowed: when a connect or a          *)
(* statement made for a tool call fails (the second statement of           *)
(* get_database_stats included), MCPHandler answers with an error object,  *)
(* not with a result.                                                      *)
(* Fails: get_database_stats drops the error of its second statement and   *)
(* returns the text of the first as a success.                             *)
(***************************************************************************)
C16_StoreFailureIsAnError ==
    (Answered("MCPHandler") /\ IsToolRequest /\ StoreFailed)
    => /\ resp.error # NoError
       /\ resp.result = NoneResult

(***************************************************************************)
(* C17  Every connection to the store opened for a request is closed       *)
(* before the response of that request is written, on the success path and *)
(* on every failure path: at most one connection is open at a time, every  *)
(* statement runs on the connection its request opened, none is open when  *)
(* the handler is done, and between requests no connection exists.         *)
(***************************************************************************)
CountOps(calls, op, i) == Cardinality({j \in 1..i : calls[j].op = op})

\* The connections open after the first i store events of the request.
OpenAfter(calls, i) == CountOps(calls, "connect", i) - CountOps(calls, "close", i)

C17_ConnectionsClosed ==
    /\ \A i \in DOMAIN resp.calls :
          /\ OpenAfter(resp.calls, i) \in {0, 1}
          /\ resp.calls[i].op \in {"execute", "error"} => OpenAfter(resp.calls, i) = 1
          /\ resp.calls[i].op \in {"connect", "connect_failed"}
                => OpenAfter(resp.calls, i - 1) = 0
    /\ OpenAfter(resp.calls, Len(resp.calls)) = 0
    /\ pc = "idle" => resp.calls = << >>

\* get_database_stats whose second statement is rejected: two connections,
\* both closed.
C17_Witness ==
    /\ Answered("MCPHandler")
    /\ IsToolsCall
    /\ IsName(CalledName, "get_database_stats")
    /\ Executed("error")
    /\ CountOps(resp.calls, "connect", Len(resp.calls)) = 2
    /\ CountOps(resp.calls, "close", Len(resp.calls)) = 2

(***************************************************************************)
(* C18  No retries: within one request a connect or a statement that       *)
(* failed is followed by no further attempt, no statement is executed      *)
(* twice, and the store is used only for the tool call at hand: a request  *)
(* that calls no tool, and the time between requests, use no store.        *)
(***************************************************************************)
C18_NoRetries ==
    /\ \A i, j \in DOMAIN resp.calls :
          i < j =>
            /\ resp.calls[i].op \in {"connect_failed", "error"}
                  => resp.calls[j].op \notin {"connect", "connect_failed", "execute"}
            /\ resp.calls[i].op = "execute" /\ resp.calls[j].op = "execute"
                  => resp.calls[i].sql # resp.calls[j].sql
    /\ pc = "done" /\ ~(resp.handler = "MCPHandler" /\ IsToolRequest) => resp.calls = << >>
    /\ pc = "idle" => resp.calls = << >>

\* list_extensions while the store is unreachable: one attempt, then the error.
C18_Witness ==
    /\ Answered("MCPHandler")
    /\ IsToolsCall
    /\ IsName(CalledName, "list_extensions")
    /\ resp.calls = << Ev("connect_failed", "") >>
    /\ resp.error.code = -32010

(***************************************************************************)
(* C19  No state persists between requests: handling a GET, HEAD, POST or  *)
(* OPTIONS request leaves the process-wide state (the allow-list as loaded *)
(* at startup, the environment, the attributes of the class MCPHandler)    *)
(* unchanged, the response of MCPHandler is a function of the request, of  *)
(* that state and of what the store returns, and nothing of a request is   *)
(* left when it is answered.                                               *)
(***************************************************************************)
\* The response MCPHandler gives to request r when its uses of the store end
\* as s, computed from the state the process started with.
ResponseOf(r, s) ==
    IF r.verb = "POST"
    THEN MCPHandler_do_POST(r, _load_enabled_tools(config), databaseUrl, jwtSecret,
                            s[1], s[2])
    ELSE IF r.verb = "GET"
    THEN MCPHandler_do_GET(r.path, r.acceptJson, _load_enabled_tools(config))
    ELSE IF r.verb = "HEAD" THEN MCPHandler_do_HEAD(r.path)
    ELSE MCPHandler_do_OPTIONS

C19_NoStateBetweenRequests ==
    [][ /\ env' = env
        /\ classAttrs' = classAttrs
        /\ classAttrs' = MCPHandlerClass
        /\ ENABLED_TOOLS' = _load_enabled_tools(config')
        /\ (pc' = "done" /\ resp'.handler = "MCPHandler") => resp' = ResponseOf(req', store')
        /\ pc' = "idle" => /\ req' = NoRequest
                           /\ resp' = NoResponse
                           /\ store' = NoStore
                           /\ log' = << >>
      ]_vars

\* A response of MCPHandler that carries a status: send_response has run.
C19_Witness ==
    /\ Answered("MCPHandler")
    /\ req.verb = "GET"
    /\ resp.status = 200
    /\ send_response(classAttrs, resp.status).self._response_code = 200
    /\ classAttrs = MCPHandlerClass

(***************************************************************************)
(* C20  In MCPHandler every REST mirror of the tool list (GET /api/tools,  *)
(* /tools, /mcp/tools/list, /mcp/tools.json, /mcp-tools.json, and          *)
(* /mcp/tools with Accept: application/json) returns the same tools in the *)
(* same order as JSON-RPC tools/list, under every allow-list.              *)
(***************************************************************************)
ToolsListRequest ==
    Request("/mcp", "int", "json", "obj", Num("7"), Str("tools/list"), NoParams,
            Missing, Missing, NoArgs)

IsToolsMirror ==
    /\ Answered("MCPHandler")
    /\ req.verb = "GET"
    /\ \/ req.path \in {"/api/tools", "/tools", "/mcp/tools/list", "/mcp/tools.json",
                        "/mcp-tools.json"}
       \/ req.path = "/mcp/tools" /\ req.acceptJson

C20_MirrorsEqualToolsList ==
    IsToolsMirror
    => /\ resp.status = 200
       /\ resp.kind = "json"
       /\ resp.keys = {"tools"}
       /\ resp.result = MCPHandler_do_POST(ToolsListRequest, ENABLED_TOOLS, databaseUrl,
                                           jwtSecret, "rows", "rows").result

\* A mirror under an allow-list that hides tools.
C20_Witness ==
    /\ IsToolsMirror
    /\ req.path = "/mcp/tools"
    /\ ENABLED_TOOLS = SetOf({"execute_sql", "check_health", "list_tables"})
    /\ resp.result = ToolList(<< "execute_sql", "list_tables", "check_health" >>)

(***************************************************************************)
(* C21  GET /health is answered 200 with a JSON payload that has a         *)
(* "status" key by every server (MCPHandler, MCPHubHandler,                *)
(* SupabaseMCPHandler and the health-check servers), whatever the          *)
(* allow-list, the environment and the state of the store, and without     *)
(* using the store.                                                        *)
(***************************************************************************)
IsHealthCheck == pc = "done" /\ req.verb = "GET" /\ req.path = "/health"

C21_HealthAlways200 ==
    IsHealthCheck
    => /\ resp.status = 200
       /\ resp.kind = "json"
       /\ "status" \in resp.keys
       /\ resp.result.t = "health"
       /\ ~resp.escaped
       /\ resp.calls = << >>

\* /health of MCPHandler while DATABASE_URL is not set and an allow-list is.
C21_Witness ==
    /\ IsHealthCheck
    /\ resp.handler = "MCPHandler"
    /\ ~databaseUrl
    /\ ~ENABLED_TOOLS.none
    /\ resp.status = 200

(***************************************************************************)
(* C22  An OPTIONS request to any path is answered as a CORS preflight by  *)
(* MCPHandler, MCPHubHandler and SupabaseMCPHandler: status 204, no body,  *)
(* and the headers Access-Control-Allow-Origin, -Methods and -Headers.     *)
(* Fails: the hub and SupabaseMCPHandler answer 200, and the hub answers   *)
(* a 404 page on the paths it does not know.                               *)
(***************************************************************************)
C22_OptionsIsPreflight ==
    (pc = "done" /\ req.verb = "OPTIONS")
    => /\ resp.status = 204
       /\ resp.kind = "empty"
       /\ resp.cors = CorsHeaders

(***************************************************************************)
(* C23  When a POST fails outside the routing and tool error paths (the    *)
(* body does not decode to a JSON object, or the handler's except block    *)
(* runs), the body MCPHandler and SupabaseMCPHandler send carries a        *)
(* generic message only, never the text of the exception.                  *)
(* Fails: SupabaseMCPHandler answers 500 with {"error": str(e)}.           *)
(***************************************************************************)
UnanticipatedFailure ==
    /\ pc = "done"
    /\ req.verb = "POST"
    /\ resp.handler \in {"MCPHandler", "SupabaseMCPHandler"}
    /\ \/ req.contentLength = "int" /\ req.body \in {"malformed", "not_utf8"}
       \/ req.contentLength = "int" /\ req.body = "json" /\ req.top # "obj"
       \/ resp.status = 500
       \/ resp.error.code = -32603

BodyTextsOf(r) == Range(r.result.text) \cup Range(r.error.message)

C23_NoInternalsInBody ==
    UnanticipatedFailure => ExceptionText \notin BodyTextsOf(resp)

(***************************************************************************)
(* C24  In MCPHandler, for every path, HEAD returns the status that GET    *)
(* returns for that path, and writes no body.                              *)
(* Fails: do_HEAD knows fewer paths than do_GET and answers 404 on         *)
(* /api/tools, /tools, /mcp/tools, /mcp/resources, /resources,             *)
(* /mcp/prompts and /prompts, where GET answers 200.                       *)
(***************************************************************************)
C24_HeadStatusEqualsGetStatus ==
    (Answered("MCPHandler") /\ req.verb = "HEAD")
    => /\ resp.kind = "empty"
       /\ \A a \in BOOLEAN :
             ~MCPHandler_do_GET(req.path, a, ENABLED_TOOLS).escaped
             => resp.status = MCPHandler_do_GET(req.path, a, ENABLED_TOOLS).status

(***************************************************************************)
(* C25  In MCPHubHandler every view of the tool catalogue shows one        *)
(* registry: the names of JSON-RPC tools/list are the names of the GET     *)
(* /mcp descriptor and the names of the supabase-mcp entries of GET        *)
(* /api/tools, and the tool count of GET /health is the number of entries  *)
(* of GET /api/tools.                                                      *)
(* Fails: the four views are four literals: tools/list has 5 names, the    *)
(* descriptor and /api/tools have 8 for supabase-mcp, /health says 20 and  *)
(* /api/tools has 19 entries.                                              *)
(***************************************************************************)
HubToolsList ==
    Range(MCPHubHandler_do_POST([ToolsListRequest EXCEPT !.path = "/"]).result.tools)

\* The names of the entries of a /api/tools body r that belong to server srv.
ApiNames(r, srv) == {r.tools[i] : i \in {j \in DOMAIN r.tools : r.text[j] = srv}}

C25_HubViewsAgree ==
    (Answered("MCPHubHandler") /\ req.verb = "GET")
    => /\ req.path = "/mcp" => Range(resp.result.tools) = HubToolsList
       /\ req.path = "/api/tools" => ApiNames(resp.result, "supabase-mcp") = HubToolsList
       /\ req.path = "/health"
            => resp.result.text[2] = ToString(Len(MCPHubHandler_do_GET("/api/tools").result.tools))

(***************************************************************************)
(* C26  In MCPHandler the tool count of the GET /health payload is the     *)
(* number of tools that tools/list returns, under every allow-list.        *)
(* Fails: the payload holds the literal 3; tools/list returns the 19       *)
(* registered tools, or those of them the allow-list keeps.                *)
(***************************************************************************)
C26_HealthCountsToolsList ==
    (Answered("MCPHandler") /\ req.verb = "GET" /\ req.path = "/health")
    => resp.result.text[2]
         = ToString(Len(MCPHandler_do_POST(ToolsListRequest, ENABLED_TOOLS, databaseUrl,
                                           jwtSecret, "rows", "rows").result.tools))

(***************************************************************************)
(* C27  Listing and dispatch agree in MCPHandler: with no allow-list, a    *)
(* tools/call is answered -32601 exactly when the name it carries is not   *)
(* among the names tools/list returns.                                     *)
(***************************************************************************)
ListedNames ==
    Range(MCPHandler_do_POST(ToolsListRequest, ENABLED_TOOLS, databaseUrl,
                             jwtSecret, "rows", "rows").result.tools)

C27_ListingAgreesWithDispatch ==
    (Answered("MCPHandler") /\ IsToolsCall /\ ENABLED_TOOLS.none)
    => ( resp.error.code = -32601
         <=> ~(CalledName.t = "str" /\ CalledName.v \in ListedNames) )

\* A listed stub tool is called and answers with a result.
C27_Witness ==
    /\ Answered("MCPHandler")
    /\ IsToolsCall
    /\ ENABLED_TOOLS.none
    /\ IsName(CalledName, "search_docs")
    /\ "search_docs" \in ListedNames
    /\ resp.error = NoError
    /\ resp.status = 200

(***************************************************************************)
(* C28  MCPHandler.do_POST emits at most one HTTP response, one status     *)
(* line with its header block, for a request, on every path: also when a   *)
(* write fails once the headers are sent and the internal-error path runs. *)
(* Fails: the except block calls send_response(200) and end_headers        *)
(* whatever the try block has already sent.                                *)
(***************************************************************************)
C28_AtMostOneResponse ==
    (Answered("MCPHandler") /\ req.verb = "POST") => resp.statusLines <= 1

(***************************************************************************)
(* C29  For every request MCPHandler handles (GET, HEAD, POST, OPTIONS)    *)
(* the log holds exactly one REQ line, then exactly one RES line, and both *)
(* carry the correlation id of the request: the X-Request-Id header or the *)
(* generated id.                                                           *)
(* Fails: do_POST rebinds request_id to the JSON-RPC id before _log_done,  *)
(* do_OPTIONS logs nothing, and a handler an exception leaves logs no RES. *)
(***************************************************************************)
LinesOf(call) == {i \in DOMAIN log : log[i].call = call}

C29_OneReqOneResSameId ==
    Answered("MCPHandler")
    => /\ Cardinality(LinesOf("REQ")) = 1
       /\ Cardinality(LinesOf("RES")) = 1
       /\ \A i \in LinesOf("REQ"), j \in LinesOf("RES") :
             /\ i < j
             /\ log[i].request_id = X_Request_Id
             /\ log[j].request_id = log[i].request_id

(***************************************************************************)
(* C30  With DATABASE_URL unset no tools/call of MCPHandler attempts a     *)
(* connection; execute_sql, check_health and list_tables return a result   *)
(* (simulated content, never an error); every other store-backed tool      *)
(* (list_extensions, list_auth_users, get_auth_user, list_storage_buckets, *)
(* list_storage_objects, get_database_stats, get_database_connections)     *)
(* returns a tool-specific error.                                          *)
(* Fails: execute_sql slices sql unvalidated, and a null sql or arguments  *)
(* that are no object raise into -32603; get_auth_user and                 *)
(* list_storage_objects answer -32602 before they look for DATABASE_URL.   *)
(***************************************************************************)
SimulatedTools == {"execute_sql", "check_health", "list_tables"}

OtherStoreTools == {"list_extensions", "list_auth_users", "get_auth_user",
                    "list_storage_buckets", "list_storage_objects",
                    "get_database_stats", "get_database_connections"}

C30_Calls(tools) ==
    /\ Answered("MCPHandler")
    /\ IsToolsCall
    /\ req.socket = "ok"
    /\ ~databaseUrl
    /\ CalledName.t = "str"
    /\ CalledName.v \in tools

C30_WithoutDatabaseUrl ==
    /\ C30_Calls(SimulatedTools \cup OtherStoreTools) => ~Executed("connect")
    /\ C30_Calls(SimulatedTools) => resp.error = NoError /\ resp.result # NoneResult
    /\ C30_Calls(OtherStoreTools) => resp.error.code \in -32099 .. -32000

====
